---- MODULE Spec2Model ----
(***************************************************************************)
(* Model of kaltura_metadata_xml_util.py: the schema-driven metadata       *)
(* document builder/editor (MetadataUtils), the construction path of       *)
(* KalturaMetadataManager and the reference flow main().                   *)
(*                                                                         *)
(* A schema (xsd_root) is the list of its xsd:element declarations in      *)
(* document order, the root wrapper 'metadata' left out.  A document       *)
(* (metadata_xml) is the list of the children of <metadata>, each a tag    *)
(* and a text.                                                             *)
(***************************************************************************)
EXTENDS Integers, Sequences, FiniteSets, TLC

\* ---------------------------------------------------------------- bounds
\* number of xsd:element declarations of a schema
MaxFields == 2
\* number of elements of the stored document of an entry
MaxItemLen == 2
\* the same, for the sessions that go on to edit the document
MaxEditedItemLen == 1

\* ---------------------------------------------------------------- values
\* element.text of an element without text node (lxml gives None)
None == "<None>"

\* the field names main() edits
FieldNames == <<"Email", "Format", "Categories">>

\* an enumeration restriction (the one main()'s 'Format' value belongs to)
Enumeration == <<"Go-Pro camera", "Phone">>

\* values passed to add_value_to_metadata by a caller of the library
Values == {"", " ", "Go-Pro camera", "Drone"}

\* texts of the elements of a stored document
ItemTexts == {"", " ", "Drone"}

\* str.strip() on the texts of the model
Strip(s) == IF s = " " THEN "" ELSE s

\* Python truthiness of element.text
Truthy(text) == text # None /\ text # ""

\* "element.text is None or not element.text.strip()"
IsEmptyText(text) == text = None \/ ~Truthy(Strip(text))

\* ---------------------------------------------------------------- schema
\* one xsd:element declaration: its name, minOccurs, maxOccurs, the
\* enumeration values get_restriction_values resolves for it, and whether
\* it is a direct child of the first complexType/sequence
FieldKinds ==
  [minOccurs : {"0", "1"}, maxOccurs : {"1", "unbounded"},
   restriction : {<<>>, Enumeration}, inSequence : BOOLEAN]

Declare(name, kind) ==
  [name |-> name, minOccurs |-> kind.minOccurs, maxOccurs |-> kind.maxOccurs,
   restriction |-> kind.restriction, inSequence |-> kind.inSequence]

Schemas ==
  UNION { { [i \in 1..n |-> Declare(FieldNames[i], k[i])] : k \in [1..n -> FieldKinds] }
          : n \in 1..MaxFields }

\* xsd_root.find(".//xsd:element[@name='...']"): index of the declaration, 0 if none
FindXsdElement(xsd, field_name) ==
  IF \E i \in 1..Len(xsd) : xsd[i].name = field_name
  THEN CHOOSE i \in 1..Len(xsd) :
         xsd[i].name = field_name /\ \A j \in 1..(i-1) : xsd[j].name # field_name
  ELSE 0

is_field_multi_valued(field_name, xsd) ==
  LET i == FindXsdElement(xsd, field_name)
  IN  IF i # 0 THEN xsd[i].maxOccurs # "1" ELSE FALSE

get_restriction_values(field_name, xsd) ==
  LET i == FindXsdElement(xsd, field_name)
  IN  IF i # 0 THEN xsd[i].restriction ELSE <<>>

\* "value in restriction_values"
InList(value, list) == \E i \in 1..Len(list) : list[i] = value

\* mutant: the restriction is never enforced
Rejected_Never(value, restriction_values) == FALSE

\* line 176: "restriction_values and value not in restriction_values"
Rejected(value, restriction_values) ==
  restriction_values # <<>> /\ ~InList(value, restriction_values)

\* mutant: an optional field without text is kept
Dropped_Never(minOccurs) == FALSE

\* line 99: "minOccurs == '0'"
Dropped(minOccurs) == minOccurs = "0"

\* sequence.findall('xsd:element'): the declarations of the first sequence
SequenceElements(xsd) == SelectSeq(xsd, LAMBDA e : e.inSequence)

\* ---------------------------------------------------------------- documents
Element(tag, text) == [tag |-> tag, text |-> text]

\* parent.findall(".//tag")
FindAll(doc, tag) == SelectSeq(doc, LAMBDA e : e.tag = tag)

\* mutant: the last element with the tag is found instead of the first
Find_Last(doc, tag) ==
  IF \E i \in 1..Len(doc) : doc[i].tag = tag
  THEN CHOOSE i \in 1..Len(doc) :
         doc[i].tag = tag /\ \A j \in (i+1)..Len(doc) : doc[j].tag # tag
  ELSE 0

\* parent.find(".//tag"): index of the first element with the tag, 0 if none
Find(doc, tag) ==
  IF \E i \in 1..Len(doc) : doc[i].tag = tag
  THEN CHOOSE i \in 1..Len(doc) :
         doc[i].tag = tag /\ \A j \in 1..(i-1) : doc[j].tag # tag
  ELSE 0

\* parent.insert(index, element)
Insert(doc, index, element) ==
  LET at == IF index > Len(doc) THEN Len(doc) ELSE index
  IN  SubSeq(doc, 1, at) \o <<element>> \o SubSeq(doc, at + 1, Len(doc))

\* element.text = text for the element at index i
SetText(doc, i, text) == [doc EXCEPT ![i].text = text]

\* ET.tostring: every element written as <tag>text</tag>
Render(doc) == [i \in 1..Len(doc) |-> [tag |-> doc[i].tag, body |-> doc[i].text]]

\* ET.fromstring: an element with an empty body has no text node
Parse(xml) ==
  [i \in 1..Len(xml) |->
     Element(xml[i].tag, IF xml[i].body = "" THEN None ELSE xml[i].body)]

build_metadata_template(xsd) == [i \in 1..Len(xsd) |-> Element(xsd[i].name, "")]

\* lines 90-100: the loop over list(template_tree), from template element i on
RECURSIVE MergeFrom(_, _, _, _)
MergeFrom(template, item_tree, xsd, i) ==
  IF i > Len(template) THEN <<>>
  ELSE LET field_name == template[i].tag
           c == Find(item_tree, field_name)
           x == FindXsdElement(xsd, field_name)
           minOccurs == IF x # 0 THEN xsd[x].minOccurs ELSE None
           rest == MergeFrom(template, item_tree, xsd, i + 1)
       IN  IF c # 0 /\ Truthy(item_tree[c].text)
           THEN <<Element(field_name, item_tree[c].text)>> \o rest
           ELSE IF Dropped(minOccurs) THEN rest
           ELSE <<template[i]>> \o rest

\* mutant: no fresh template when the merge leaves nothing
get_metadata_template_with_values_NoFallback(item_xml, xsd) ==
  MergeFrom(build_metadata_template(xsd), Parse(item_xml), xsd, 1)

get_metadata_template_with_values(item_xml, xsd) ==
  LET template_tree == MergeFrom(build_metadata_template(xsd), Parse(item_xml), xsd, 1)
  IN  IF template_tree = <<>> THEN build_metadata_template(xsd) ELSE template_tree

\* mutant: a value the field already holds is appended again
AlreadyHolds_Never(existing_elements, value) == FALSE

\* line 183: "any(elem.text == str(value) for elem in existing_elements)"
AlreadyHolds(existing_elements, value) ==
  \E k \in 1..Len(existing_elements) : existing_elements[k].text = value

\* mutant: whitespace-only text is not taken for empty
remove_empty_elements_NoStrip(parent, field_name) ==
  SelectSeq(parent, LAMBDA e : ~(e.tag = field_name /\ ~Truthy(e.text)))

remove_empty_elements(parent, field_name) ==
  SelectSeq(parent, LAMBDA e : ~(e.tag = field_name /\ IsEmptyText(e.text)))

\* lines 207-213: the walk over the sequence's declarations, from the i-th on
RECURSIVE InsertPositionFrom(_, _, _, _, _)
InsertPositionFrom(doc, field_name, sequence, i, position) ==
  IF i > Len(sequence) THEN position
  ELSE IF sequence[i].name = field_name THEN position
  ELSE InsertPositionFrom(doc, field_name, sequence, i + 1,
                          position + Len(FindAll(doc, sequence[i].name)))

find_insert_position(doc, field_name, xsd) ==
  InsertPositionFrom(doc, field_name, SequenceElements(xsd), 1, 0)

\* mutant: the restriction is checked after the document was changed
add_value_to_metadata_CheckLast(doc, field_name, value, xsd) ==
  LET multi_valued == is_field_multi_valued(field_name, xsd)
      existing_elements == FindAll(doc, field_name)
      inserted == Insert(doc, find_insert_position(doc, field_name, xsd),
                         Element(field_name, value))
      changed ==
        IF multi_valued
        THEN remove_empty_elements(
               IF AlreadyHolds(existing_elements, value) THEN doc ELSE inserted, field_name)
        ELSE IF existing_elements # <<>>
        THEN SetText(doc, Find(doc, field_name), value)
        ELSE inserted
  IN  [outcome |-> IF Rejected(value, get_restriction_values(field_name, xsd))
                   THEN "ValueError" ELSE "ok",
       doc |-> changed]

\* the result of add_value_to_metadata: the exception raised (or "ok") and
\* the document afterwards
add_value_to_metadata(doc, field_name, value, xsd) ==
  LET multi_valued == is_field_multi_valued(field_name, xsd)
      restriction_values == get_restriction_values(field_name, xsd)
      existing_elements == FindAll(doc, field_name)
      new_value_element == Element(field_name, value)
      inserted == Insert(doc, find_insert_position(doc, field_name, xsd), new_value_element)
  IN  IF Rejected(value, restriction_values)
      THEN [outcome |-> "ValueError", doc |-> doc]
      ELSE IF multi_valued
      THEN [outcome |-> "ok",
            doc |-> remove_empty_elements(
                      IF AlreadyHolds(existing_elements, value) THEN doc ELSE inserted,
                      field_name)]
      ELSE [outcome |-> "ok",
            doc |-> IF existing_elements # <<>>
                    THEN SetText(doc, Find(doc, field_name), value)
                    ELSE inserted]

\* lines 270-292: the loop over the declarations, from the i-th on
RECURSIVE PopulateFrom(_, _, _, _)
PopulateFrom(doc, xsd, skip_optional, i) ==
  IF i > Len(xsd) THEN doc
  ELSE LET name == xsd[i].name
           is_optional == xsd[i].minOccurs = "0"
           m == Find(doc, name)
           restriction_values == get_restriction_values(name, xsd)
           next ==
             IF m = 0 THEN doc
             ELSE IF restriction_values # <<>> /\ ~is_field_multi_valued(name, xsd)
             THEN IF ~Truthy(doc[m].text) \/ ~Truthy(Strip(doc[m].text))
                  THEN SetText(doc, m, restriction_values[1]) ELSE doc
             ELSE IF is_optional /\ skip_optional THEN SetText(doc, m, "")
             ELSE doc
       IN  PopulateFrom(next, xsd, skip_optional, i + 1)

populate_default_values(doc, xsd, skip_optional) == PopulateFrom(doc, xsd, skip_optional, 1)

\* create_or_get_metadata, given what check_metadata_exists returned
create_or_get_metadata(metadata_exists, item_xml, xsd) ==
  IF metadata_exists
  THEN get_metadata_template_with_values(item_xml, xsd)
  ELSE populate_default_values(build_metadata_template(xsd), xsd, TRUE)

\* ---------------------------------------------------------------- state
VARIABLES
  xsd_root,      \* the parsed schema
  item,          \* what check_metadata_exists returns: exists, and the stored xml
  metadata_xml,  \* the document being built and edited
  pc,            \* "start", "library" (calls of the static methods), "session"
                 \* (after create_or_get_metadata), or main()'s position
  call,          \* the last operation called and its arguments
  outcome,       \* "ok" or the exception the last operation raised
  since,         \* the add_value_to_metadata calls made on a fresh template
  next_edit,     \* main(): index of the next edit of the try block
  attempted,     \* main(): number of add_value_to_metadata calls made
  upserted       \* main(): the xml handed to apply_metadata_to_entry

vars == <<xsd_root, item, metadata_xml, pc, call, outcome, since, next_edit, attempted, upserted>>

\* the names of the declarations of a schema
DeclaredNames(xsd) == {xsd[i].name : i \in 1..Len(xsd)}

\* the stored documents of an entry: flat lists of text-bearing elements
ItemElements(xsd) == [tag : DeclaredNames(xsd), body : ItemTexts]

Items(xsd, maxLen) ==
  {[exists |-> FALSE, xml |-> <<>>]} \cup
  UNION { { [exists |-> TRUE, xml |-> x] : x \in [1..n -> ItemElements(xsd)] }
          : n \in 0..maxLen }

NoCall == [op |-> "none", field |-> "", value |-> "", run |-> 0]

\* the edits of main()'s try block
MainEdits ==
  << [field |-> "Email",      value |-> "someone@test.com"],
     [field |-> "Email",      value |-> "someone@example.com"],
     [field |-> "Format",     value |-> "Go-Pro camera"],
     [field |-> "Categories", value |-> "Testimonials"],
     [field |-> "Categories", value |-> "Nature party"] >>

\* the state before anything is built, for a schema and the stored documents
\* of at most maxLen elements
Start(maxLen) ==
  /\ xsd_root \in Schemas
  /\ item \in Items(xsd_root, maxLen)
  /\ metadata_xml = <<>>
  /\ pc = "start"
  /\ call = NoCall
  /\ outcome = "ok"
  /\ since = <<>>
  /\ next_edit = 1
  /\ attempted = 0
  /\ upserted = <<>>

MainUnchanged == UNCHANGED <<next_edit, attempted, upserted>>

\* has the document an element of the field with exactly this text
HasValue(doc, field_name, value) ==
  \E i \in 1..Len(doc) : doc[i].tag = field_name /\ doc[i].text = value

\* the record of an add_value_to_metadata call.  run = 1: the document held no
\* element of the field with the value when the call was made; run = 2: the
\* call repeats the call before it, which had run = 1 and returned
AddCall(field_name, value) ==
  [op |-> "add_value_to_metadata", field |-> field_name, value |-> value,
   run |-> IF /\ call.op = "add_value_to_metadata" /\ call.field = field_name
              /\ call.value = value /\ call.run = 1 /\ outcome = "ok"
           THEN 2
           ELSE IF HasValue(metadata_xml, field_name, value) THEN 0 ELSE 1]

\* MetadataUtils.build_metadata_template called by a user of the library
BuildTemplate ==
  /\ pc = "start"
  /\ metadata_xml' = build_metadata_template(xsd_root)
  /\ pc' = "library"
  /\ call' = [NoCall EXCEPT !.op = "build_metadata_template"]
  /\ outcome' = "ok"
  /\ since' = <<"template">>
  /\ UNCHANGED <<xsd_root, item>>
  /\ MainUnchanged

\* MetadataUtils.get_metadata_template_with_values called by a user of the library
MergeExisting ==
  /\ pc = "start"
  /\ item.exists
  /\ metadata_xml' = get_metadata_template_with_values(item.xml, xsd_root)
  /\ pc' = "library"
  /\ call' = [NoCall EXCEPT !.op = "get_metadata_template_with_values"]
  /\ outcome' = "ok"
  /\ since' = <<>>
  /\ UNCHANGED <<xsd_root, item>>
  /\ MainUnchanged

\* populate_default_values on the document just constructed ("runs once after
\* initial construction")
ApplyDefaults(skip_optional) ==
  /\ pc = "library"
  /\ call.op \in {"build_metadata_template", "get_metadata_template_with_values"}
  /\ metadata_xml' = populate_default_values(metadata_xml, xsd_root, skip_optional)
  /\ call' = [NoCall EXCEPT !.op = "populate_default_values"]
  /\ outcome' = "ok"
  /\ since' = <<>>
  /\ UNCHANGED <<xsd_root, item, pc>>
  /\ MainUnchanged

\* create_or_get_metadata called by a user of the library
CreateOrGet ==
  /\ pc = "start"
  /\ metadata_xml' = create_or_get_metadata(item.exists, item.xml, xsd_root)
  /\ pc' = "session"
  /\ call' = [NoCall EXCEPT !.op = "create_or_get_metadata"]
  /\ outcome' = "ok"
  /\ since' = <<>>
  /\ UNCHANGED <<xsd_root, item>>
  /\ MainUnchanged

\* the calls recorded since the template was built (two are kept)
Since(s, field_name, value) ==
  IF s # <<>> /\ Len(s) < 3 THEN Append(s, [field |-> field_name, value |-> value])
  ELSE <<>>

\* add_value_to_metadata called by a user of the library
AddValue(field_name, value) ==
  LET r == add_value_to_metadata(metadata_xml, field_name, value, xsd_root)
  IN  /\ pc \in {"library", "session"}
      /\ metadata_xml' = r.doc
      /\ outcome' = r.outcome
      /\ call' = AddCall(field_name, value)
      /\ since' = Since(since, field_name, value)
      /\ UNCHANGED <<xsd_root, item, pc>>
      /\ MainUnchanged

\* main(), line 351
MainCreateOrGet ==
  /\ pc = "start"
  /\ metadata_xml' = create_or_get_metadata(item.exists, item.xml, xsd_root)
  /\ pc' = "main_try"
  /\ call' = [NoCall EXCEPT !.op = "create_or_get_metadata"]
  /\ outcome' = "ok"
  /\ UNCHANGED <<xsd_root, item, since>>
  /\ MainUnchanged

\* mutant: each edit has its own handler, the next edit follows a failed one
AfterEdit_Continue(i, result) ==
  IF i = Len(MainEdits) THEN "main_apply" ELSE "main_try"

\* where main() continues after the edit at index i returned or raised
AfterEdit(i, result) ==
  IF result = "ValueError" THEN "main_except"
  ELSE IF i = Len(MainEdits) THEN "main_apply" ELSE "main_try"

\* main(), lines 356-364: the next add_value_to_metadata call of the try block
MainEdit ==
  LET e == MainEdits[next_edit]
      r == add_value_to_metadata(metadata_xml, e.field, e.value, xsd_root)
  IN  /\ pc = "main_try"
      /\ metadata_xml' = r.doc
      /\ outcome' = r.outcome
      /\ call' = AddCall(e.field, e.value)
      /\ attempted' = attempted + 1
      /\ pc' = AfterEdit(next_edit, r.outcome)
      /\ next_edit' = next_edit + 1
      /\ UNCHANGED <<xsd_root, item, since, upserted>>

\* main(), lines 369-370: the handler logs the error
MainExcept ==
  /\ pc = "main_except"
  /\ pc' = "main_apply"
  /\ UNCHANGED <<xsd_root, item, metadata_xml, call, outcome, since, next_edit, attempted, upserted>>

\* main(), lines 372-383: the document is sent and printed
MainApply ==
  /\ pc = "main_apply"
  /\ upserted' = Render(metadata_xml)
  /\ pc' = "main_done"
  /\ UNCHANGED <<xsd_root, item, metadata_xml, call, outcome, since, next_edit, attempted>>

\* ---------------------------------------------------------------- specifications
\* the static methods of MetadataUtils used on their own: a document is built
\* or merged, defaults are applied or not, then values are added
Init == Start(MaxEditedItemLen)

Next ==
  \/ BuildTemplate
  \/ MergeExisting
  \/ \E skip_optional \in BOOLEAN : ApplyDefaults(skip_optional)
  \/ \E f \in DeclaredNames(xsd_root), v \in Values : AddValue(f, v)

Spec == Init /\ [][Next]_vars

\* the construction of the document alone, over all stored documents
InitBuild == Start(MaxItemLen)

NextBuild ==
  \/ BuildTemplate
  \/ MergeExisting
  \/ \E skip_optional \in BOOLEAN : ApplyDefaults(skip_optional)
  \/ CreateOrGet

SpecBuild == InitBuild /\ [][NextBuild]_vars

\* the reference flow main()
InitMain == Start(MaxItemLen)

NextMain ==
  \/ MainCreateOrGet
  \/ MainEdit
  \/ MainExcept
  \/ MainApply

SpecMain == InitMain /\ [][NextMain]_vars

\* ---------------------------------------------------------------- claims
IsAdd(c) == c.op = "add_value_to_metadata"

\* the texts of the instances of a field, in document order
TextsOf(doc, field_name) ==
  LET all == FindAll(doc, field_name) IN [i \in 1..Len(all) |-> all[i].text]

\* null or blank-after-trim
Blank(text) == text \in {None, "", " "}

\* number of instances of the field that carry the text
Count(doc, field_name, text) ==
  Cardinality({i \in 1..Len(doc) : doc[i].tag = field_name /\ doc[i].text = text})

\* C1: when the restriction list resolved for the field is non-empty and the
\* value is not in it, add_value_to_metadata ends in the error outcome and the
\* document is exactly the document before the call.
C1_RestrictionEnforced ==
  [][ (/\ IsAdd(call')
       /\ get_restriction_values(call'.field, xsd_root) # <<>>
       /\ ~InList(call'.value, get_restriction_values(call'.field, xsd_root)))
      => (outcome' = "ValueError" /\ metadata_xml' = metadata_xml) ]_vars

\* a call with a value outside the restriction list of its field was made on
\* a document that holds elements
C1_Witness ==
  /\ IsAdd(call)
  /\ outcome = "ValueError"
  /\ get_restriction_values(call.field, xsd_root) # <<>>
  /\ ~InList(call.value, get_restriction_values(call.field, xsd_root))
  /\ metadata_xml # <<>>

\* sequencePosition of a field: its index in the first sequence, 0 if it has none
SequencePosition(xsd, field_name) ==
  LET sequence == SequenceElements(xsd)
  IN  IF \E i \in 1..Len(sequence) : sequence[i].name = field_name
      THEN CHOOSE i \in 1..Len(sequence) : sequence[i].name = field_name
      ELSE 0

\* C2: in every document the operations produce, the instances appear in
\* non-decreasing order of their fields' sequencePosition, and the instances of
\* one multi-valued field are contiguous.
C2_Ordered ==
  pc # "start" =>
    /\ \A i, j \in 1..Len(metadata_xml) :
         (/\ i < j
          /\ SequencePosition(xsd_root, metadata_xml[i].tag) # 0
          /\ SequencePosition(xsd_root, metadata_xml[j].tag) # 0)
         => SequencePosition(xsd_root, metadata_xml[i].tag)
              <= SequencePosition(xsd_root, metadata_xml[j].tag)
    /\ \A i, j, k \in 1..Len(metadata_xml) :
         (/\ i < k /\ k < j
          /\ metadata_xml[i].tag = metadata_xml[j].tag
          /\ is_field_multi_valued(metadata_xml[i].tag, xsd_root))
         => metadata_xml[k].tag = metadata_xml[i].tag

\* C3: two add_value_to_metadata calls on a fresh template, for one multi-valued
\* field, with two distinct allowed non-blank values v1 then v2, leave exactly
\* two instances of the field, v1 before v2.
C3_InsertionOrder ==
  (/\ Len(since) = 3
   /\ since[2].field = since[3].field
   /\ is_field_multi_valued(since[2].field, xsd_root)
   /\ since[2].value # since[3].value
   /\ ~Blank(since[2].value) /\ ~Blank(since[3].value)
   /\ \A n \in 2..3 :
        \/ get_restriction_values(since[n].field, xsd_root) = <<>>
        \/ InList(since[n].value, get_restriction_values(since[n].field, xsd_root)))
  => TextsOf(metadata_xml, since[2].field) = <<since[2].value, since[3].value>>

\* C4 (as stated): for a multi-valued field and every allowed value v, two calls
\* in a row with v, the first on a document holding no instance with text v,
\* leave exactly one instance with text v, and the second changes nothing.
C4_Original ==
  [][ (/\ IsAdd(call') /\ call'.run = 2 /\ outcome' = "ok"
       /\ is_field_multi_valued(call'.field, xsd_root))
      => (/\ metadata_xml' = metadata_xml
          /\ Count(metadata_xml', call'.field, call'.value) = 1) ]_vars

\* C4 (amended): the same for every allowed value v that is not blank.
C4_Idempotent ==
  [][ (/\ IsAdd(call') /\ call'.run = 2 /\ outcome' = "ok"
       /\ is_field_multi_valued(call'.field, xsd_root)
       /\ ~Blank(call'.value))
      => (/\ metadata_xml' = metadata_xml
          /\ Count(metadata_xml', call'.field, call'.value) = 1) ]_vars

\* a non-blank value was added twice in a row to a multi-valued field that did
\* not hold it, and the field holds it once
C4_Witness ==
  /\ IsAdd(call) /\ call.run = 2 /\ outcome = "ok"
  /\ is_field_multi_valued(call.field, xsd_root)
  /\ ~Blank(call.value)
  /\ Count(metadata_xml, call.field, call.value) = 1

\* C5: after every add_value_to_metadata call that returned, on a multi-valued
\* field, no instance of that field has null or blank-after-trim text.
C5_EmptyPruned ==
  (/\ IsAdd(call) /\ outcome = "ok"
   /\ is_field_multi_valued(call.field, xsd_root))
  => \A i \in 1..Len(metadata_xml) :
       metadata_xml[i].tag = call.field => ~Blank(metadata_xml[i].text)

\* a whitespace-only value was passed for a multi-valued field, the call
\* returned, and other elements remain
C5_Witness ==
  /\ IsAdd(call) /\ outcome = "ok"
  /\ is_field_multi_valued(call.field, xsd_root)
  /\ call.value = " "
  /\ metadata_xml # <<>>

\* the fields of a schema that are optional
IsOptional(xsd, field_name) ==
  FindXsdElement(xsd, field_name) # 0 /\ xsd[FindXsdElement(xsd, field_name)].minOccurs = "0"

\* the set of field instances (names and texts) of a document
Instances(doc) == {doc[i] : i \in 1..Len(doc)}

\* the stored document is the rendered template and has just been merged
MergedOwnTemplate ==
  /\ call.op = "get_metadata_template_with_values"
  /\ item.xml = Render(build_metadata_template(xsd_root))

\* C6 (as stated): merging the rendered template gives the template's set of
\* field instances.
C6_Original ==
  MergedOwnTemplate =>
    Instances(metadata_xml) = Instances(build_metadata_template(xsd_root))

\* C6 (amended): merging the rendered template gives the template's instances
\* of the fields that are not optional, in template order; when every field is
\* optional it gives the whole template.
C6_MergeOfTemplate ==
  MergedOwnTemplate =>
    metadata_xml =
      IF \A i \in 1..Len(xsd_root) : xsd_root[i].minOccurs = "0"
      THEN build_metadata_template(xsd_root)
      ELSE SelectSeq(build_metadata_template(xsd_root),
                     LAMBDA e : ~IsOptional(xsd_root, e.tag))

\* the rendered template of a schema with an optional and a required field
\* was merged
C6_Witness ==
  /\ MergedOwnTemplate
  /\ \E i, j \in 1..Len(xsd_root) :
       xsd_root[i].minOccurs = "0" /\ xsd_root[j].minOccurs # "0"
  /\ Len(metadata_xml) < Len(xsd_root)

\* the document was merged from a stored document whose first element of the
\* field carries the text
CopiedFromItem(e) ==
  /\ item.exists
  /\ Find(Parse(item.xml), e.tag) # 0
  /\ Parse(item.xml)[Find(Parse(item.xml), e.tag)].text = e.text

\* C7 (as stated): no instance of a field whose restriction list is non-empty
\* carries a text outside the list.
C7_Original ==
  pc # "start" =>
    \A i \in 1..Len(metadata_xml) :
      get_restriction_values(metadata_xml[i].tag, xsd_root) # <<>>
      => InList(metadata_xml[i].text, get_restriction_values(metadata_xml[i].tag, xsd_root))

\* C7 (amended): an instance of a field whose restriction list is non-empty
\* carries a text of the list, or the empty text the template gave it, or the
\* text the merge copied from the stored document.
C7_RestrictedTexts ==
  pc # "start" =>
    \A i \in 1..Len(metadata_xml) :
      get_restriction_values(metadata_xml[i].tag, xsd_root) # <<>>
      => \/ InList(metadata_xml[i].text, get_restriction_values(metadata_xml[i].tag, xsd_root))
         \/ metadata_xml[i].text = ""
         \/ CopiedFromItem(metadata_xml[i])

\* a value was added to a restricted field and the document holds it
C7_Witness ==
  /\ IsAdd(call) /\ outcome = "ok"
  /\ get_restriction_values(call.field, xsd_root) # <<>>
  /\ HasValue(metadata_xml, call.field, call.value)
  /\ \E i \in 1..Len(metadata_xml) :
       get_restriction_values(metadata_xml[i].tag, xsd_root) # <<>> /\ metadata_xml[i].text = ""

\* C8: once create_or_get_metadata has returned, and after the
\* add_value_to_metadata calls that follow, no optional field is present as an
\* instance with empty text.
C8_NoEmptyOptional ==
  pc \in {"session", "main_try", "main_except", "main_apply", "main_done"} =>
    \A i \in 1..Len(metadata_xml) :
      IsOptional(xsd_root, metadata_xml[i].tag) => metadata_xml[i].text # ""

\* the body of the first element of the stored xml with the tag; "" when there
\* is no such element or it has no text
FirstBody(xml, tag) ==
  IF \E k \in 1..Len(xml) : xml[k].tag = tag
  THEN xml[CHOOSE k \in 1..Len(xml) :
             xml[k].tag = tag /\ \A j \in 1..(k-1) : xml[j].tag # tag].body
  ELSE ""

\* the stored xml has no element of the field, or only blank ones
NoneOrBlank(xml, tag) == \A k \in 1..Len(xml) : xml[k].tag = tag => Blank(xml[k].body)

\* some field of the schema is required or has text in the stored xml
SomeFieldKept(xsd, xml) ==
  \E j \in 1..Len(xsd) : xsd[j].minOccurs # "0" \/ FirstBody(xml, xsd[j].name) # ""

\* C9 (as stated): when the stored document has no element, or only a blank
\* element, for an optional field, the merged document has no instance of it.
C9_Original ==
  call.op = "get_metadata_template_with_values" =>
    \A i \in 1..Len(xsd_root) :
      (xsd_root[i].minOccurs = "0" /\ NoneOrBlank(item.xml, xsd_root[i].name))
      => Find(metadata_xml, xsd_root[i].name) = 0

\* C9 (amended): when the first element of the stored document for an optional
\* field is missing or has no text at all, and some field of the schema is
\* required or has text in the stored document, the merged document has no
\* instance of the optional field.
C9_OptionalDropped ==
  call.op = "get_metadata_template_with_values" =>
    \A i \in 1..Len(xsd_root) :
      (/\ xsd_root[i].minOccurs = "0"
       /\ FirstBody(item.xml, xsd_root[i].name) = ""
       /\ SomeFieldKept(xsd_root, item.xml))
      => Find(metadata_xml, xsd_root[i].name) = 0

\* a stored document with an element without text for an optional field was
\* merged, and another field is kept
C9_Witness ==
  /\ call.op = "get_metadata_template_with_values"
  /\ metadata_xml # <<>>
  /\ \E i \in 1..Len(xsd_root) :
       /\ xsd_root[i].minOccurs = "0"
       /\ \E k \in 1..Len(item.xml) : item.xml[k].tag = xsd_root[i].name
       /\ FirstBody(item.xml, xsd_root[i].name) = ""
       /\ SomeFieldKept(xsd_root, item.xml)

\* the schema rejects the value of main()'s edit i
EditRejected(xsd, i) ==
  /\ get_restriction_values(MainEdits[i].field, xsd) # <<>>
  /\ ~InList(MainEdits[i].value, get_restriction_values(MainEdits[i].field, xsd))

\* the first edit of main() the schema rejects, 0 if it rejects none
FirstRejected(xsd) ==
  IF \E i \in 1..Len(MainEdits) : EditRejected(xsd, i)
  THEN CHOOSE i \in 1..Len(MainEdits) :
         EditRejected(xsd, i) /\ \A j \in 1..(i-1) : ~EditRejected(xsd, j)
  ELSE 0

\* C10 (as stated): in main() every edit of the sequence is attempted, also
\* after one of them failed with the invalid-value error.
C10_Original ==
  pc = "main_done" => attempted = Len(MainEdits)

\* the value of main()'s edit j is the default populate_default_values gives its field
IsDefault(xsd, j) ==
  /\ get_restriction_values(MainEdits[j].field, xsd) # <<>>
  /\ get_restriction_values(MainEdits[j].field, xsd)[1] = MainEdits[j].value

\* C10 (amended): in main() the edits run in one try block: the first edit that
\* fails with the invalid-value error ends the sequence, no later edit is
\* attempted or applied, and the document as edited so far is still sent.
C10_FirstErrorEndsEdits ==
  pc = "main_done" =>
    /\ attempted = IF FirstRejected(xsd_root) = 0 THEN Len(MainEdits)
                   ELSE FirstRejected(xsd_root)
    /\ \A j \in 1..Len(MainEdits) :
         (FirstRejected(xsd_root) # 0 /\ j >= FirstRejected(xsd_root) /\ ~IsDefault(xsd_root, j))
         => ~HasValue(metadata_xml, MainEdits[j].field, MainEdits[j].value)
    /\ \A j \in 1..Len(MainEdits) :
         (/\ FirstRejected(xsd_root) = 0
          /\ \A k \in (j+1)..Len(MainEdits) : MainEdits[k].field # MainEdits[j].field)
         => HasValue(metadata_xml, MainEdits[j].field, MainEdits[j].value)
    /\ upserted = Render(metadata_xml)

\* main() ended after an edit failed while edits were left
C10_Witness ==
  /\ pc = "main_done"
  /\ outcome = "ValueError"
  /\ attempted < Len(MainEdits)

\* C11: the merged document holds at most one instance per field name, and the
\* instance carries the text of the first same-named element of the stored
\* document (empty when there is no such element or it has no text); the later
\* elements of a multi-valued field are absent from it.
C11_FirstElementOnly ==
  call.op = "get_metadata_template_with_values" =>
    \A i \in 1..Len(metadata_xml) :
      /\ Len(FindAll(metadata_xml, metadata_xml[i].tag)) = 1
      /\ metadata_xml[i].text = FirstBody(item.xml, metadata_xml[i].tag)

\* a stored document with two elements of one multi-valued field, with
\* different texts, was merged: the document holds the first text only
C11_Witness ==
  /\ call.op = "get_metadata_template_with_values"
  /\ Len(item.xml) = 2
  /\ item.xml[1].tag = item.xml[2].tag
  /\ is_field_multi_valued(item.xml[1].tag, xsd_root)
  /\ item.xml[1].body # "" /\ item.xml[2].body # ""
  /\ item.xml[1].body # item.xml[2].body
  /\ TextsOf(metadata_xml, item.xml[1].tag) = <<item.xml[1].body>>
====
